---- MODULE Spec2Model ----
(***************************************************************************)
(* The session registry (Lobby) and the per-connection Socket.IO handlers  *)
(* of src/src/main.rs.  A connection is a socket; a socket's synchronous   *)
(* handler runs to completion before the socket's next event (another      *)
(* join_game, its disconnect) is dispatched, while the handlers of         *)
(* different sockets interleave at every access to shared state: the       *)
(* registry behind its RwLock and the rooms of the adapter.                *)
(***************************************************************************)
EXTENDS Naturals, Sequences, FiniteSets

NumConns == 3
NumGames == 2
NumPlayers == 3
MaxItems == 2
MaxFetches == 1
NumRoundConns == 2

Conns == 1..NumConns
GameIds == 1..NumGames
PlayerIds == 1..NumPlayers

\* Option<T>
None == <<>>
Some(x) == <<x>>

\* LobbyResult
New == <<"New">>
Paired(host) == <<"Paired", host>>
Full == <<"Full">>

\* A key the HashMap does not hold.
Absent == <<"absent">>

VARIABLES
    lobby,      \* Lobby: game id -> Absent or <<p1, p2>>, p2 an Option
    ext,        \* per socket, its extensions: [player, game], each an Option
    alive,      \* per socket: connected
    pc,         \* per socket: where its join_game handler stands
    ack,        \* per socket: the acks sent to it, in order
    rooms,      \* adapter: game id -> set of sockets in the room
    bcast,      \* the room broadcast the last step emitted: [ev, data, room, from, to]
    joinOrder,  \* per game id: the connected sockets in the order insert served them
    evicted,    \* per game id: remove has been called for it
    fetches     \* start_game tasks awaiting the provider: [from, room], room the GameId read

vars == <<lobby, ext, alive, pc, ack, rooms, bcast, joinOrder, evicted, fetches>>

NoExt == [player |-> None, game |-> None]
NoBcast == [ev |-> "", data |-> None, room |-> None, from |-> None, to |-> {}]

\* Lobby::insert, lines 54-70: the result and the map it leaves.
InsertFullOverwrites(l, game_id, player_id) ==
    IF l[game_id] # Absent
    THEN [res |-> Paired(l[game_id][1]),
          lobby |-> [l EXCEPT ![game_id] = <<l[game_id][1], Some(player_id)>>]]
    ELSE [res |-> New, lobby |-> [l EXCEPT ![game_id] = <<player_id, None>>]]

InsertNoLookup(l, game_id, player_id) ==
    [res |-> New, lobby |-> [l EXCEPT ![game_id] = <<player_id, None>>]]

Insert(l, game_id, player_id) ==
    IF l[game_id] # Absent
    THEN IF l[game_id][2] # None
         THEN [res |-> Full, lobby |-> l]
         ELSE [res |-> Paired(l[game_id][1]),
               lobby |-> [l EXCEPT ![game_id] = <<l[game_id][1], Some(player_id)>>]]
    ELSE [res |-> New, lobby |-> [l EXCEPT ![game_id] = <<player_id, None>>]]

RemoveHostPromotesGuest(l, game_id, player_id) ==
    IF l[game_id] = Absent
    THEN l
    ELSE IF l[game_id][1] = player_id
         THEN IF l[game_id][2] = None
              THEN [l EXCEPT ![game_id] = Absent]
              ELSE [l EXCEPT ![game_id] = <<l[game_id][2][1], None>>]
         ELSE IF l[game_id][2] = Some(player_id)
              THEN [l EXCEPT ![game_id] = <<l[game_id][1], None>>]
              ELSE l

RemoveStrangerDeletes(l, game_id, player_id) ==
    IF l[game_id] = Absent
    THEN l
    ELSE IF l[game_id][2] = Some(player_id)
         THEN [l EXCEPT ![game_id] = <<l[game_id][1], None>>]
         ELSE [l EXCEPT ![game_id] = Absent]

RemoveKeepsRecord(l, game_id, player_id) ==
    IF l[game_id] = Absent
    THEN l
    ELSE IF l[game_id][2] = Some(player_id)
         THEN [l EXCEPT ![game_id] = <<l[game_id][1], None>>]
         ELSE l

\* Lobby::remove that leaves the guest slot as it is when the guest leaves.
RemoveGuestStays(l, game_id, player_id) ==
    IF l[game_id] = Absent
    THEN l
    ELSE IF l[game_id][1] = player_id
         THEN [l EXCEPT ![game_id] = Absent]
         ELSE l

\* Lobby::remove, lines 72-96.
Remove(l, game_id, player_id) ==
    IF l[game_id] = Absent
    THEN l
    ELSE IF l[game_id][1] = player_id
         THEN [l EXCEPT ![game_id] = Absent]
         ELSE IF l[game_id][2] = Some(player_id)
              THEN [l EXCEPT ![game_id] = <<l[game_id][1], None>>]
              ELSE l

\* The ack the join_game handler sends for a result, lines 163-175.
AckOf(res) ==
    IF res = New THEN <<"ok_new">>
    ELSE IF res = Full THEN <<"room is full">>
    ELSE <<"ok_paired", res[2]>>

Init ==
    /\ lobby = [g \in GameIds |-> Absent]
    /\ ext = [c \in Conns |-> NoExt]
    /\ alive = [c \in Conns |-> TRUE]
    /\ pc = [c \in Conns |-> "idle"]
    /\ ack = [c \in Conns |-> <<>>]
    /\ rooms = [g \in GameIds |-> {}]
    /\ bcast = NoBcast
    /\ joinOrder = [g \in GameIds |-> <<>>]
    /\ evicted = [g \in GameIds |-> FALSE]
    /\ fetches = {}

\* The ids a state mentions.  Ids are opaque strings the code only compares for
\* equality, so of the ids no part of the state mentions one stands for all.
UsedPlayers ==
    {p \in PlayerIds :
        \/ \E c \in Conns : ext[c].player = Some(p)
        \/ \E c \in Conns : \E i \in 1..Len(ack[c]) : ack[c][i] = <<"ok_paired", p>>
        \/ \E g \in GameIds : lobby[g] # Absent /\ (lobby[g][1] = p \/ lobby[g][2] = Some(p))}

UsedGames ==
    {g \in GameIds :
        \/ \E c \in Conns : ext[c].game = Some(g)
        \/ lobby[g] # Absent
        \/ rooms[g] # {}
        \/ joinOrder[g] # <<>>
        \/ evicted[g]
        \/ \E f \in fetches : f.room = g}

Least(S) == {x \in S : \A y \in S : x <= y}

\* EventData, lines 28-32: the payloads a client may send with join_game.
JoinPlayers == UsedPlayers \cup Least(PlayerIds \ UsedPlayers)
JoinGames == UsedGames \cup Least(GameIds \ UsedGames)

JoinGameRebinds(c) ==
    /\ alive[c]
    /\ pc[c] = "idle"
    /\ bcast' = NoBcast
    /\ \E game_id \in JoinGames, player_id \in JoinPlayers :
          LET r == Insert(lobby, game_id, player_id)
          IN /\ ext' = [ext EXCEPT ![c] = [player |-> Some(player_id),
                                            game |-> Some(game_id)]]
             /\ lobby' = r.lobby
             /\ ack' = [ack EXCEPT ![c] = Append(@, AckOf(r.res))]
             /\ pc' = [pc EXCEPT ![c] = IF r.res = Full THEN "idle" ELSE "join"]
             /\ joinOrder' = [joinOrder EXCEPT ![game_id] = Append(@, c)]
             /\ UNCHANGED <<alive, rooms, evicted, fetches>>

\* join_game, lines 152-175: the guard on an existing binding, the binding,
\* state.insert and the ack of its result; Full returns.  The binding and the ack
\* touch the socket alone, so they are one step with the insert.
JoinGame(c) ==
    /\ alive[c]
    /\ pc[c] = "idle"
    /\ bcast' = NoBcast
    /\ IF ext[c].player # None
       THEN UNCHANGED <<lobby, ext, alive, pc, ack, rooms, joinOrder, evicted, fetches>>
       ELSE \E game_id \in JoinGames, player_id \in JoinPlayers :
              LET r == Insert(lobby, game_id, player_id)
              IN /\ ext' = [ext EXCEPT ![c] = [player |-> Some(player_id),
                                                game |-> Some(game_id)]]
                 /\ lobby' = r.lobby
                 /\ ack' = [ack EXCEPT ![c] = Append(@, AckOf(r.res))]
                 /\ pc' = [pc EXCEPT ![c] = IF r.res = Full THEN "idle" ELSE "join"]
                 /\ joinOrder' = [joinOrder EXCEPT ![game_id] = Append(@, c)]
                 /\ UNCHANGED <<alive, rooms, evicted, fetches>>

\* join_game, line 177: s.join(game_id).
JoinRoom(c) ==
    /\ pc[c] = "join"
    /\ rooms' = [rooms EXCEPT ![ext[c].game[1]] = @ \cup {c}]
    /\ pc' = [pc EXCEPT ![c] = "emit"]
    /\ bcast' = NoBcast
    /\ UNCHANGED <<lobby, ext, alive, ack, joinOrder, evicted, fetches>>

\* join_game, lines 178-180: s.to(game_id).emit("player joined", player_id),
\* delivered to the room's sockets other than the sender.
JoinEmit(c) ==
    /\ pc[c] = "emit"
    /\ bcast' = [ev |-> "player joined", data |-> ext[c].player, room |-> ext[c].game,
                 from |-> Some(c), to |-> rooms[ext[c].game[1]] \ {c}]
    /\ pc' = [pc EXCEPT ![c] = "idle"]
    /\ UNCHANGED <<lobby, ext, alive, ack, rooms, joinOrder, evicted, fetches>>

\* on_disconnect that also drops the fetches its socket started.
DisconnectCancelsFetch(c) ==
    /\ alive[c]
    /\ pc[c] = "idle"
    /\ lobby' = IF ext[c].game = None \/ ext[c].player = None
                THEN lobby
                ELSE Remove(lobby, ext[c].game[1], ext[c].player[1])
    /\ alive' = [alive EXCEPT ![c] = FALSE]
    /\ rooms' = [g \in GameIds |-> rooms[g] \ {c}]
    /\ ext' = [ext EXCEPT ![c] = NoExt]
    /\ ack' = [ack EXCEPT ![c] = <<>>]
    /\ joinOrder' = [g \in GameIds |-> SelectSeq(joinOrder[g], LAMBDA x : x # c)]
    /\ evicted' = IF ext[c].game = None \/ ext[c].player = None
                  THEN evicted
                  ELSE [evicted EXCEPT ![ext[c].game[1]] = TRUE]
    /\ bcast' = NoBcast
    /\ fetches' = {f \in fetches : f.from # c}
    /\ UNCHANGED pc

\* on_disconnect, lines 208-221; the closed socket leaves its rooms and is dropped.
Disconnect(c) ==
    /\ alive[c]
    /\ pc[c] = "idle"
    /\ lobby' = IF ext[c].game = None \/ ext[c].player = None
                THEN lobby
                ELSE Remove(lobby, ext[c].game[1], ext[c].player[1])
    /\ alive' = [alive EXCEPT ![c] = FALSE]
    /\ rooms' = [g \in GameIds |-> rooms[g] \ {c}]
    /\ ext' = [ext EXCEPT ![c] = NoExt]
    /\ ack' = [ack EXCEPT ![c] = <<>>]
    /\ joinOrder' = [g \in GameIds |-> SelectSeq(joinOrder[g], LAMBDA x : x # c)]
    /\ evicted' = IF ext[c].game = None \/ ext[c].player = None
                  THEN evicted
                  ELSE [evicted EXCEPT ![ext[c].game[1]] = TRUE]
    /\ bcast' = NoBcast
    /\ UNCHANGED <<pc, fetches>>

Next ==
    \E c \in Conns :
        \/ JoinGame(c)
        \/ JoinRoom(c)
        \/ JoinEmit(c)
        \/ Disconnect(c)

\* The session lifecycle: join_game and disconnect, the handlers that write the
\* registry, the extensions and the rooms.
Spec == Init /\ [][Next]_vars

----
\* s.within(room).emit(ev, data): delivered to every socket in the room, the sender
\* too when it is in it.  The payloads of the signals (item id, timestamp) are
\* left out: data is None.
Within(c, room, ev, data) ==
    [ev |-> ev, data |-> data, room |-> Some(room), from |-> Some(c), to |-> rooms[room]]

\* What the provider fetch of lines 112-120 may come to: reqwest::get fails, the
\* body does not parse as MALResponse (lines 34-42), or it parses to a list of
\* candidates, of which only the number matters here.
Responses ==
    {[status |-> "error", len |-> 0], [status |-> "malformed", len |-> 0]}
        \cup {[status |-> "ok", len |-> n] : n \in 0..MaxItems}

\* start_game, lines 106-110: the guard on GameId; the task then awaits the provider.
StartGame(c) ==
    /\ alive[c]
    /\ pc[c] = "idle"
    /\ bcast' = NoBcast
    /\ IF ext[c].game = None
       THEN UNCHANGED fetches
       ELSE /\ Cardinality(fetches) < MaxFetches
            /\ fetches' = fetches \cup {[from |-> c, room |-> ext[c].game[1]]}
    /\ UNCHANGED <<lobby, ext, alive, pc, ack, rooms, joinOrder, evicted>>

\* start_game that emits although the list of candidates is empty.
StartFetchedEmitsOnEmpty(f, resp) ==
    /\ f \in fetches
    /\ fetches' = fetches \ {f}
    /\ IF resp.status = "ok"
       THEN bcast' = [ev |-> "start game", data |-> None, room |-> Some(f.room),
                      from |-> Some(f.from), to |-> rooms[f.room]]
       ELSE bcast' = NoBcast
    /\ UNCHANGED <<lobby, ext, alive, pc, ack, rooms, joinOrder, evicted>>

\* start_game, lines 112-135: the provider's answer arrives; an error, a body that
\* does not parse and an empty list return, else one candidate is chosen and
\* "start game" is emitted within the room.
StartFetched(f, resp) ==
    /\ f \in fetches
    /\ fetches' = fetches \ {f}
    /\ IF resp.status = "ok" /\ resp.len > 0
       THEN bcast' = Within(f.from, f.room, "start game", None)
       ELSE bcast' = NoBcast
    /\ UNCHANGED <<lobby, ext, alive, pc, ack, rooms, joinOrder, evicted>>

\* on_pass without the guard on GameId: emits to every connected socket.
OnPassToAll(c) ==
    /\ alive[c]
    /\ pc[c] = "idle"
    /\ bcast' = IF ext[c].game = None
                THEN [ev |-> "pass", data |-> None, room |-> None, from |-> Some(c),
                      to |-> {d \in Conns : alive[d]}]
                ELSE [ev |-> "pass", data |-> None, room |-> ext[c].game,
                      from |-> Some(c), to |-> rooms[ext[c].game[1]]]
    /\ UNCHANGED <<lobby, ext, alive, pc, ack, rooms, joinOrder, evicted, fetches>>

\* on_pass, lines 138-144.
OnPass(c) ==
    /\ alive[c]
    /\ pc[c] = "idle"
    /\ bcast' = IF ext[c].game = None
                THEN NoBcast
                ELSE Within(c, ext[c].game[1], "pass", None)
    /\ UNCHANGED <<lobby, ext, alive, pc, ack, rooms, joinOrder, evicted, fetches>>

\* "extend" handler, lines 186-192.
OnExtend(c) ==
    /\ alive[c]
    /\ pc[c] = "idle"
    /\ bcast' = IF ext[c].game = None
                THEN NoBcast
                ELSE Within(c, ext[c].game[1], "extend", None)
    /\ UNCHANGED <<lobby, ext, alive, pc, ack, rooms, joinOrder, evicted, fetches>>

\* "send anime" handler, lines 194-200.
OnSendAnime(c) ==
    /\ alive[c]
    /\ pc[c] = "idle"
    /\ bcast' = IF ext[c].game = None
                THEN NoBcast
                ELSE Within(c, ext[c].game[1], "next anime", None)
    /\ UNCHANGED <<lobby, ext, alive, pc, ack, rooms, joinOrder, evicted, fetches>>

NextSignals ==
    \/ Next
    \/ \E c \in Conns :
        \/ StartGame(c)
        \/ OnPass(c)
        \/ OnExtend(c)
        \/ OnSendAnime(c)
    \/ \E f \in fetches, resp \in Responses : StartFetched(f, resp)

\* The whole of on_connect: the lifecycle and the signal handlers.
SpecSignals == Init /\ [][NextSignals]_vars

\* The same handlers with fewer clients: only the first NumRoundConns sockets
\* ever connect.
InitRound ==
    /\ lobby = [g \in GameIds |-> Absent]
    /\ ext = [c \in Conns |-> NoExt]
    /\ alive = [c \in Conns |-> c <= NumRoundConns]
    /\ pc = [c \in Conns |-> "idle"]
    /\ ack = [c \in Conns |-> <<>>]
    /\ rooms = [g \in GameIds |-> {}]
    /\ bcast = NoBcast
    /\ joinOrder = [g \in GameIds |-> <<>>]
    /\ evicted = [g \in GameIds |-> FALSE]
    /\ fetches = {}

SpecRound == InitRound /\ [][NextSignals]_vars

----
\* Readings of the state used by the properties below.

\* The identity and the session a socket is bound to.
PlayerOf(c) == ext[c].player[1]
GameOf(c) == ext[c].game[1]
Bound(c) == ext[c].player # None /\ ext[c].game # None

AckNew == <<"ok_new">>
AckPaired(host) == <<"ok_paired", host>>
AckFull == <<"room is full">>

\* The join of c was answered, and with what.
Answered(c) == Len(ack[c]) > 0
Accepted(c) == Answered(c) /\ ack[c][1] # AckFull

\* joinOrder[g] lists every insert ever made for g: no socket bound to g has left.
Fresh(g) == ~evicted[g]

\* c is the socket whose join created the record g holds: answered New, and its
\* identity is the record's host.
IsHost(c, g) ==
    /\ alive[c] /\ Bound(c) /\ GameOf(c) = g
    /\ ack[c] = <<AckNew>>
    /\ lobby[g] # Absent /\ lobby[g][1] = PlayerOf(c)

\* c is the socket that filled the guest slot of the record g holds: answered
\* Paired with the record's host, and its identity is the record's guest.
IsGuest(c, g) ==
    /\ alive[c] /\ Bound(c) /\ GameOf(c) = g
    /\ lobby[g] # Absent /\ lobby[g][2] = Some(PlayerOf(c))
    /\ ack[c] = <<AckPaired(lobby[g][1])>>

\* This step is the disconnect of c: on_disconnect runs for it.
Leaves(c) == alive[c] /\ ~alive'[c]

\* This step is the join_game of c that binds it to g.
Joins(c, g) == ext[c].game = None /\ ext'[c].game = Some(g)

----
\* C1: on a fresh session id, three joins with pairwise distinct identities from
\* three sockets are answered New ("ok_new"), Paired(first) (("ok_paired", first))
\* and Full ("room is full"), in the order insert served them; the record is
\* {host: first, guest: None} after the first join and {host: first, guest:
\* second} after the second, and the third join leaves it exactly so.
C1_ThreeJoins ==
    \A g \in GameIds :
        LET o == joinOrder[g]
            Distinct == \A i, j \in 1..Len(o) : i # j => PlayerOf(o[i]) # PlayerOf(o[j])
        IN (Fresh(g) /\ Len(o) \in 1..3 /\ Distinct) =>
            /\ ack[o[1]] = <<AckNew>>
            /\ Len(o) = 1 => lobby[g] = <<PlayerOf(o[1]), None>>
            /\ Len(o) >= 2 =>
                /\ ack[o[2]] = <<AckPaired(PlayerOf(o[1]))>>
                /\ lobby[g] = <<PlayerOf(o[1]), Some(PlayerOf(o[2]))>>
            /\ Len(o) = 3 => ack[o[3]] = <<AckFull>>

\* Three sockets with three identities have joined a fresh session id; the third was refused.
C1_Witness ==
    \E g \in GameIds :
        /\ Fresh(g)
        /\ Len(joinOrder[g]) = 3
        /\ Cardinality({PlayerOf(joinOrder[g][i]) : i \in 1..3}) = 3
        /\ ack[joinOrder[g][3]] = <<AckFull>>

----
\* C3: of the joins made for a session id that had no record, whatever the
\* interleaving of the handlers, the one insert serves first is answered New and
\* every later one Paired or Full, so no two are answered New; and the record a
\* handler finds is never partial: absent, host alone, or host and guest.
C3_OneCreated ==
    \A g \in GameIds :
        LET o == joinOrder[g]
        IN /\ lobby[g] # Absent =>
                /\ Len(lobby[g]) = 2
                /\ lobby[g][1] \in PlayerIds
                /\ lobby[g][2] \in {None} \cup {Some(p) : p \in PlayerIds}
           /\ Fresh(g) =>
                /\ Cardinality({i \in 1..Len(o) : ack[o[i]] = <<AckNew>>}) <= 1
                /\ \A i \in 1..Len(o) :
                     IF i = 1
                     THEN ack[o[i]] = <<AckNew>>
                     ELSE \/ ack[o[i]] = <<AckFull>>
                          \/ \E h \in PlayerIds : ack[o[i]] = <<AckPaired(h)>>

\* Two join handlers for one fresh session id are in flight at once, both past insert.
C3_Witness ==
    \E g \in GameIds :
        /\ Fresh(g)
        /\ Len(joinOrder[g]) >= 2
        /\ pc[joinOrder[g][1]] # "idle"
        /\ pc[joinOrder[g][2]] # "idle"
        /\ ack[joinOrder[g][2]] # <<AckNew>>

----
\* C4 (as claimed): a socket whose join was answered "room is full" holds no
\* identity and no session id in its extensions and is in no room, so its next
\* join_game is processed.
C4_RejectedLeftUnbound ==
    \A c \in Conns :
        (alive[c] /\ ack[c] = <<AckFull>>) =>
            /\ ext[c] = NoExt
            /\ \A g \in GameIds : c \notin rooms[g]

----
\* C5: when the socket that is host of a session's record disconnects, the record
\* is removed whole, guest or no guest; and a join for a session id that has no
\* record is answered New, which is what the next join for that id meets.
C5_HostLeaves ==
    [][\A c \in Conns, g \in GameIds :
          /\ (Leaves(c) /\ IsHost(c, g)) => lobby'[g] = Absent
          /\ (Joins(c, g) /\ lobby[g] = Absent) => ack'[c] = <<AckNew>>]_vars

\* The host of a paired session has left, its guest is still connected, and a new
\* socket has joined the same session id and was answered New.
C5_Witness ==
    \E g \in GameIds, c, d \in Conns :
        /\ evicted[g]
        /\ c # d
        /\ IsHost(d, g)
        /\ alive[c] /\ Bound(c) /\ GameOf(c) = g
        /\ \E h \in PlayerIds : ack[c] = <<AckPaired(h)>> /\ h # PlayerOf(d)

----
\* C6 (as claimed): when the socket that is guest of a session's record disconnects
\* while the host's socket is connected, the record stays, with the same host and
\* guest None.
C6_GuestLeaves ==
    [][\A c, h \in Conns, g \in GameIds :
          (Leaves(c) /\ IsGuest(c, g) /\ h # c /\ IsHost(h, g)) =>
              lobby'[g] = <<lobby[g][1], None>>]_vars

----
\* C7: a join_game on a socket that is already bound is a no-op: the registry,
\* the socket's extensions, the rooms, the acks and every handler's position are
\* unchanged and nothing is broadcast.
C7_JoinOnBound ==
    [][\A c \in Conns :
          (Bound(c) /\ JoinGame(c)) =>
              /\ UNCHANGED <<lobby, ext, alive, pc, ack, rooms, joinOrder, evicted>>
              /\ bcast' = NoBcast]_vars

\* A bound socket, accepted and in its room, whose handler has returned: its next
\* join_game meets the guard.
C7_Witness ==
    \E c \in Conns :
        /\ alive[c] /\ pc[c] = "idle" /\ Bound(c) /\ Accepted(c)
        /\ c \in rooms[GameOf(c)]
        /\ \E g \in GameIds : g # GameOf(c) /\ lobby[g] # Absent

----
\* C8: remove called with an identity that is neither host nor guest of the
\* session's record, or for a session id with no record, leaves the whole
\* registry as it was.
C8_EvictStranger ==
    [][\A c \in Conns :
          (Leaves(c) /\ Bound(c)) =>
              LET g == GameOf(c)
                  p == PlayerOf(c)
              IN (lobby[g] = Absent \/ (lobby[g][1] # p /\ lobby[g][2] # Some(p)))
                    => lobby' = lobby]_vars

\* A bound socket, its handler returned, that is neither host nor guest of its
\* session's record, which is full: its disconnect calls remove with a stranger.
C8_Witness ==
    \E c \in Conns :
        /\ alive[c] /\ pc[c] = "idle" /\ Bound(c)
        /\ lobby[GameOf(c)] # Absent
        /\ lobby[GameOf(c)][1] # PlayerOf(c)
        /\ lobby[GameOf(c)][2] # None
        /\ lobby[GameOf(c)][2] # Some(PlayerOf(c))

----
\* C9 (as claimed): every record has a host, and its guest is None or an identity
\* other than the host's.
C9_GuestDiffers ==
    \A g \in GameIds :
        lobby[g] # Absent =>
            /\ lobby[g][1] \in PlayerIds
            /\ lobby[g][2] # Some(lobby[g][1])

----
\* C10 (as claimed): a session id has a record if and only if some connected
\* socket's join to it was accepted (answered New or Paired).
C10_RecordIffMember ==
    \A g \in GameIds :
        lobby[g] # Absent <=>
            \E c \in Conns : alive[c] /\ Bound(c) /\ GameOf(c) = g /\ Accepted(c)

\* C10 (amended): a session id has a record only if some connected socket's join
\* to it was accepted: the socket answered New whose identity is the record's host.
C10_RecordHasMember ==
    \A g \in GameIds :
        lobby[g] # Absent => \E c \in Conns : IsHost(c, g)

\* A record that was created after an earlier host of the same session id left.
C10_Witness ==
    \E g \in GameIds :
        /\ evicted[g]
        /\ lobby[g] # Absent
        /\ \E c \in Conns : IsHost(c, g)

----
\* C11 (as claimed): when a join answered Paired emits "player joined", the event
\* carries the joiner's identity and is delivered to the socket of the session's
\* host, if that socket is connected; the joiner's ack is ("ok_paired", host).
C11_HostNotified ==
    \A c, d \in Conns :
        (/\ bcast.ev = "player joined"
         /\ bcast.from = Some(c)
         /\ \E h \in PlayerIds : ack[c] = <<AckPaired(h)>>
         /\ IsHost(d, GameOf(c))
         /\ ack[c] = <<AckPaired(PlayerOf(d))>>
         /\ PlayerOf(d) # PlayerOf(c)) =>
            /\ bcast.data = ext[c].player
            /\ d \in bcast.to

----
\* C12 (as claimed): the join of a socket answered New delivers "player joined"
\* to no socket (stated for receivers whose identity differs from the joiner's).
C12_CreatedIsSilent ==
    \A c \in Conns :
        (bcast.ev = "player joined" /\ bcast.from = Some(c) /\ ack[c] = <<AckNew>>) =>
            \A d \in bcast.to : PlayerOf(d) = PlayerOf(c)

----
\* The events of the four signal handlers.
SignalEvents == {"start game", "pass", "extend", "next anime"}

\* C13: "start game" is emitted only by the step that ends a fetch whose answer
\* parsed to a non-empty list, and then within the fetch's room; a fetch that ends
\* in an error, a malformed body or an empty list emits nothing, acks nothing and
\* leaves registry, bindings and rooms as they were.
C13_StartOnlyOnCandidates ==
    [][/\ \A f \in fetches, resp \in Responses :
            StartFetched(f, resp) =>
                IF resp.status = "ok" /\ resp.len > 0
                THEN /\ bcast'.ev = "start game"
                     /\ bcast'.room = Some(f.room)
                     /\ bcast'.to = rooms[f.room]
                ELSE /\ bcast' = NoBcast
                     /\ UNCHANGED <<lobby, ext, ack, rooms, alive>>
       /\ bcast'.ev = "start game" =>
            \E f \in fetches, resp \in Responses :
                /\ StartFetched(f, resp)
                /\ resp.status = "ok"
                /\ resp.len > 0]_vars

\* "start game" has reached the members of a room.
C13_Witness ==
    /\ bcast.ev = "start game"
    /\ bcast.to # {}
    /\ \E c \in bcast.to : bcast.from = Some(c)

----
\* C14: start game, pass, extend and send anime on a socket with no GameId emit
\* nothing, start no fetch and leave registry, bindings, acks and rooms unchanged.
C14_UnboundSignalsNoOp ==
    [][\A c \in Conns :
        (/\ ext[c].game = None
         /\ StartGame(c) \/ OnPass(c) \/ OnExtend(c) \/ OnSendAnime(c)) =>
            /\ bcast' = NoBcast
            /\ UNCHANGED <<lobby, ext, alive, pc, ack, rooms, fetches>>]_vars

\* An unbound socket is connected while a room has a member and the last step
\* was a broadcast.
C14_Witness ==
    /\ \E c \in Conns : alive[c] /\ pc[c] = "idle" /\ ext[c].game = None
    /\ \E g \in GameIds : rooms[g] # {}
    /\ bcast.ev \in SignalEvents

----
\* C15: a disconnect leaves the fetches in flight as they are, and a fetch that
\* succeeds emits "start game" to the sockets then in its room, whether or not
\* the socket that started it is still connected.
C15_FetchOutlivesSocket ==
    [][/\ \A c \in Conns : Leaves(c) => fetches' = fetches
       /\ \A f \in fetches, resp \in Responses :
            (StartFetched(f, resp) /\ resp.status = "ok" /\ resp.len > 0) =>
                /\ bcast'.ev = "start game"
                /\ bcast'.room = Some(f.room)
                /\ bcast'.from = Some(f.from)
                /\ bcast'.to = rooms[f.room]
                /\ f.from \notin bcast'.to \/ alive[f.from]]_vars

\* "start game" from a socket that has disconnected reaches a remaining member.
C15_Witness ==
    \E c \in Conns :
        /\ bcast.ev = "start game"
        /\ bcast.from = Some(c)
        /\ ~alive[c]
        /\ bcast.to # {}

----
\* C16 (as claimed): the extensions of a connected socket change only once, from
\* empty to a binding, and only in a join that is answered New or Paired.
C16_BoundOnceWhenAccepted ==
    [][\A c \in Conns :
        (alive[c] /\ alive'[c] /\ ext'[c] # ext[c]) =>
            /\ ext[c] = NoExt
            /\ Len(ack'[c]) > 0
            /\ ack'[c][1] # AckFull]_vars

----
\* C17 (as claimed): a signal that reaches the sockets of a room comes only from
\* a socket whose join to that session was answered New or Paired.
C17_SignalsFromAccepted ==
    \A c \in Conns :
        (/\ bcast.ev \in SignalEvents
         /\ bcast.from = Some(c)
         /\ bcast.to # {}
         /\ alive[c]
         /\ bcast.room = ext[c].game) => Accepted(c)

----
\* C18 (as claimed): the disconnect of a socket whose one join was answered
\* "room is full" leaves the registry unchanged.
C18_RejectedLeavesQuietly ==
    [][\A c \in Conns :
        (Leaves(c) /\ ack[c] = <<AckFull>>) => lobby' = lobby]_vars

----
\* The connected sockets whose identity the record of g holds as host or guest.
RoomMembers(g) ==
    {c \in Conns :
        /\ alive[c] /\ Bound(c) /\ GameOf(c) = g
        /\ lobby[g] # Absent
        /\ lobby[g][1] = PlayerOf(c) \/ lobby[g][2] = Some(PlayerOf(c))}

\* C19 (as claimed, for the states in which no join_game handler is under way):
\* each room holds exactly the connected sockets whose identity is recorded as
\* host or guest of its session, hence at most two.
C19_RoomIsMembers ==
    (\A c \in Conns : pc[c] = "idle") =>
        \A g \in GameIds :
            /\ rooms[g] = RoomMembers(g)
            /\ Cardinality(rooms[g]) <= 2

----
\* C20: every identity a record holds, as host or as guest, is the identity of a
\* connected socket bound to that session id; so when every socket has
\* disconnected the registry is empty.
C20_NoRegistryLeak ==
    /\ \A g \in GameIds :
        lobby[g] # Absent =>
            /\ \E c \in Conns :
                alive[c] /\ Bound(c) /\ GameOf(c) = g /\ PlayerOf(c) = lobby[g][1]
            /\ lobby[g][2] # None =>
                \E c \in Conns :
                    alive[c] /\ Bound(c) /\ GameOf(c) = g
                        /\ Some(PlayerOf(c)) = lobby[g][2]
    /\ (\A c \in Conns : ~alive[c]) => \A g \in GameIds : lobby[g] = Absent

\* Every socket has disconnected, after sessions were created and left.
C20_Witness ==
    /\ \A c \in Conns : ~alive[c]
    /\ \E g \in GameIds : evicted[g]

====
